---- MODULE Spec2Model ----
(***************************************************************************)
(* Model of static/js/data_analysis.js: the upload / find-duplicates page  *)
(* controller.  The two async click handlers are cut at their await        *)
(* points; every piece between two awaits is one atomic step of the        *)
(* browser's event loop (alert() blocks the loop, so a step that alerts    *)
(* is still one step).  The server and the user are the environment.       *)
(***************************************************************************)
EXTENDS Integers, Sequences, FiniteSets, TLC

VARIABLES
    files,          \* fileInput.files, a sequence of file names
    currentData,    \* the closure variable currentData (line 6)
    fileInfo,       \* text of the elements filename, dimensions, dupeCount
    select,         \* the select element dupeColumn: options and selected index
    table,          \* children of the element previewTable, in order
    resultsDisplay, \* resultsSection.style.display
    inflight,       \* handler invocations suspended at an await, in click order
    step,           \* which piece of which handler ran last
    effects,        \* what that piece emitted, in order: fetch calls, alerts, logs
    okSeen,         \* history: an upload body without an error field was read
    requested,      \* history, as inflight: the data field of the request each
                    \* suspended invocation sent (<<>> when it has none)
    shownFrom,      \* history: the row sequence the table's rows derive from: the
                    \* preview rendered, or the data field of the request whose
                    \* duplicates were rendered; <<>> when it shows no row
    overtaken,      \* history, as inflight: the response of a later upload click
                    \* was rendered while this invocation waited
    late,           \* history: the last step ran an overtaken invocation
    watched         \* history: the position in inflight of one invocation picked
                    \* at its click; 0 when none is picked, -1 when the last
                    \* step ran the picked one to its end

vars == <<files, currentData, fileInfo, select, table, resultsDisplay,
          inflight, step, effects, okSeen,
          requested, shownFrom, overtaken, late, watched>>

dom == <<fileInfo, select, table, resultsDisplay>>

(***************************************************************************)
(* Bounds                                                                  *)
(***************************************************************************)
MaxInFlight == 2    \* invocations suspended at an await at the same time
MaxRows == 2        \* rows of a row sequence given to displayPreview alone

(***************************************************************************)
(* JavaScript values                                                       *)
(***************************************************************************)
Null == [isNull |-> TRUE]

\* obj.f : <<v>> when the object has a property f of value v, <<>> for undefined
Get(obj, f) == IF f \in DOMAIN obj THEN <<obj[f]>> ELSE <<>>

\* the check of data.error left out
ErrorIsTruthyUnchecked(data) == FALSE

\* if (data.error) : the property exists and is not the empty string
ErrorIsTruthy(data) == "error" \in DOMAIN data /\ data.error # ""

\* JSON scalars; str is what String(value) gives
JNum1 == [kind |-> "number", str |-> "1"]
JStrX == [kind |-> "string", str |-> "x"]
JNull == [kind |-> "null", str |-> "null"]
Scalars == {JNum1, JStrX, JNull}

\* a row record is its own properties in iteration order, each a key and a value
ObjectKeys(row) == [j \in 1..Len(row) |-> row[j].key]
ObjectValues(row) == [j \in 1..Len(row) |-> row[j].value]

\* element.textContent = value : null empties the element, anything else is
\* converted with String
TextContent(value) == IF value.kind = "null" THEN "" ELSE value.str

StartsWith(s, p) == Len(s) >= Len(p) /\ SubSeq(s, 1, Len(p)) = p

\* messages of the errors the engine or the network raises
KeysOfUndefinedMessage == "Cannot convert undefined or null to object"
ReadOfUndefinedMessage == "Cannot read properties of undefined"
FetchFailedMessage == "Failed to fetch"
JsonSyntaxMessage == "Unexpected end of JSON input"

(***************************************************************************)
(* Rendering (lines 47-99).  Each function returns the element as it       *)
(* leaves it and, when it throws half way, the message of the error.       *)
(***************************************************************************)
\* innerHTML = '' left out: the children stay
ClearChildrenKept(children) == children

\* element.innerHTML = '' : the element loses all its children
ClearChildren(children) == <<>>

Returned(el) == [el |-> el, threw |-> FALSE, message |-> ""]
Threw(el, msg) == [el |-> el, threw |-> TRUE, message |-> msg]

\* lines 47-52; data.stats.rows throws when the body has no stats, after the
\* filename was written (undefined as textContent empties the element)
\* keeps a filename that is already displayed
displayFileInfoFirstName(info, data) ==
    LET named == [info EXCEPT !.filename =
                     IF info.filename # "" THEN info.filename
                     ELSE IF "filename" \in DOMAIN data THEN data.filename ELSE ""]
    IN  IF "stats" \notin DOMAIN data
        THEN Threw(named, ReadOfUndefinedMessage)
        ELSE Returned([named EXCEPT
                 !.dimensions = ToString(data.stats.rows) \o " rows × "
                                \o ToString(data.stats.columns) \o " columns",
                 !.dupeCount = ToString(data.stats.duplicates)])

displayFileInfo(info, data) ==
    LET named == [info EXCEPT !.filename =
                     IF "filename" \in DOMAIN data THEN data.filename ELSE ""]
    IN  IF "stats" \notin DOMAIN data
        THEN Threw(named, ReadOfUndefinedMessage)
        ELSE Returned([named EXCEPT
                 !.dimensions = ToString(data.stats.rows) \o " rows × "
                                \o ToString(data.stats.columns) \o " columns",
                 !.dupeCount = ToString(data.stats.duplicates)])

\* options appended to the ones already there (select.innerHTML = '' left out)
populateColumnSelectAppend(sel, columns) ==
    IF Len(columns) = 0
    THEN [el |-> sel, threw |-> TRUE, message |-> ReadOfUndefinedMessage]
    ELSE LET cols == columns[1]
             added == [k \in 1..Len(cols) |-> [value |-> cols[k], text |-> cols[k]]]
         IN  [el |-> [options |-> sel.options \o added,
                      selectedIndex |-> IF Len(sel.options \o added) = 0 THEN 0
                                        ELSE IF sel.selectedIndex = 0 THEN 1
                                        ELSE sel.selectedIndex],
              threw |-> FALSE, message |-> ""]

\* lines 54-64; columns is <<>> for undefined, <<cols>> for an array.  A select
\* of one visible row selects its first option when options are added.
populateColumnSelect(sel, columns) ==
    LET emptied == [sel EXCEPT !.options = ClearChildren(sel.options),
                               !.selectedIndex = 0]
    IN  IF Len(columns) = 0
        THEN Threw(emptied, ReadOfUndefinedMessage)
        ELSE LET cols == columns[1]
             IN  Returned([options |-> [k \in 1..Len(cols) |->
                                           [value |-> cols[k], text |-> cols[k]]],
                           selectedIndex |-> IF Len(cols) = 0 THEN 0 ELSE 1])

\* the first option's value instead of the selected one's
SelectValueFirst(sel) ==
    IF Len(sel.options) = 0 THEN "" ELSE sel.options[1].value

\* select.value (line 104)
SelectValue(sel) ==
    IF sel.selectedIndex = 0 THEN "" ELSE sel.options[sel.selectedIndex].value

\* lines 66-99; previewData is <<>> for undefined, <<rows>> for an array.  The
\* table is emptied first; reading the keys of the first row throws when there
\* is no first row, before anything is appended.
displayPreview(tbl, previewData) ==
    LET emptied == ClearChildren(tbl)
    IN  IF Len(previewData) = 0
        THEN Threw(emptied, ReadOfUndefinedMessage)
        ELSE LET rows == previewData[1]
             IN  IF Len(rows) = 0
                 THEN Threw(emptied, KeysOfUndefinedMessage)
                 ELSE LET headerRow == ObjectKeys(rows[1])
                          thead == [tag |-> "thead", rows |-> <<headerRow>>]
                          tbody == [tag |-> "tbody", rows |->
                                       [r \in 1..Len(rows) |->
                                           [j \in 1..Len(rows[r]) |->
                                               TextContent(ObjectValues(rows[r])[j])]]]
                      IN  Returned(Append(Append(emptied, thead), tbody))

\* JSON.stringify({data: ..., column: ...}) (lines 112-115): a property whose
\* value is undefined is left out
RequestBody(preview, column) ==
    IF Len(preview) = 0 THEN [column |-> column]
    ELSE [data |-> preview[1], column |-> column]

(***************************************************************************)
(* The environment: files the user can pick, bodies the server can send    *)
(***************************************************************************)
Files == {"data.csv"}

RowA1 == <<[key |-> "a", value |-> JNum1], [key |-> "b", value |-> JStrX]>>
RowA2 == <<[key |-> "a", value |-> JNum1], [key |-> "b", value |-> JNull]>>
RowB1 == <<[key |-> "b", value |-> JStrX]>>
RowB2 == <<[key |-> "b", value |-> JNull], [key |-> "a", value |-> JNum1]>>

DataA == [filename |-> "a.csv", columns |-> <<"a", "b">>,
          stats |-> [rows |-> 2, columns |-> 2, duplicates |-> 1],
          preview |-> <<RowA1, RowA2>>]
DataB == [filename |-> "b.csv", columns |-> <<"b">>,
          stats |-> [rows |-> 1, columns |-> 1, duplicates |-> 0],
          preview |-> <<RowB1>>]
\* a sheet with a header row and no data rows
DataHeaderOnly == [filename |-> "header.csv", columns |-> <<"b", "a">>,
                   stats |-> [rows |-> 0, columns |-> 2, duplicates |-> 0],
                   preview |-> <<>>]
\* a blank sheet
DataEmpty == [filename |-> "empty.csv", columns |-> <<>>,
              stats |-> [rows |-> 0, columns |-> 0, duplicates |-> 0],
              preview |-> <<>>]
ErrorBody == [error |-> "bad request"]
EmptyErrorBody == [error |-> ""]

UploadBodies == {DataA, DataB, DataHeaderOnly, DataEmpty, ErrorBody, EmptyErrorBody}

DupesA == [count |-> 3, duplicates |-> <<RowA2>>]
DupesB == [count |-> 2, duplicates |-> <<RowB1, RowB2>>]
DupesNone == [count |-> 0, duplicates |-> <<>>]

DupesBodies == {DupesA, DupesB, DupesNone, ErrorBody, EmptyErrorBody}

RejectMessages == {FetchFailedMessage, JsonSyntaxMessage}

(***************************************************************************)
(* Effects of a step                                                       *)
(***************************************************************************)
Alert(text) == [type |-> "alert", text |-> text]
ConsoleError(msg) == [type |-> "console.error", message |-> msg]
Fetch(url, body) == [type |-> "fetch", url |-> url, method |-> "POST", body |-> body]

Alerts(efx) == SelectSeq(efx, LAMBDA e : e.type = "alert")
Fetches(efx) == SelectSeq(efx, LAMBDA e : e.type = "fetch")

\* the piece that ran, and the body it read when it read one
Step(handler, at) == [handler |-> handler, at |-> at, data |-> <<>>]
StepWith(handler, at, data) == [handler |-> handler, at |-> at, data |-> <<data>>]

Suspended(handler, pc) == [handler |-> handler, pc |-> pc]

\* a catch block: console.error, then the alert with the handler's prefix
UploadPrefix == "Error processing file: "
DupesPrefix == "Error finding duplicates: "
Catch(prefix, msg) == <<ConsoleError(msg), Alert(prefix \o msg)>>

Remove(seq, i) == SubSeq(seq, 1, i - 1) \o SubSeq(seq, i + 1, Len(seq))

(***************************************************************************)
(* History variables.  The handlers never read them; a specification picks *)
(* which of them its steps record, and leaves the others as they start.    *)
(***************************************************************************)
hist == <<requested, shownFrom, overtaken, late, watched>>

InitHist ==
    /\ requested = <<>>
    /\ shownFrom = <<>>
    /\ overtaken = <<>>
    /\ late = FALSE
    /\ watched = 0

\* the step was a click that sent a request and suspended at await fetch
CallStarted == Len(inflight') = Len(inflight) + 1

\* the step ran a suspended invocation to its end
CallEnded == Len(inflight') = Len(inflight) - 1

\* nothing is recorded
Untracked(i) == UNCHANGED hist

\* records what each request carried and what the table shows.  i is the
\* position of the invocation the step resumed, 0 for a click.
TrackRequests(i) ==
    /\ requested' = IF CallStarted
                    THEN Append(requested, Get(Fetches(effects')[1].body, "data"))
                    ELSE IF CallEnded THEN Remove(requested, i) ELSE requested
    /\ shownFrom' = IF step'.at = "rendered"
                    THEN IF step'.handler = "uploadFile"
                         THEN Get(step'.data[1], "preview")
                         ELSE requested[i]
                    ELSE IF table' # table THEN <<>> ELSE shownFrom
    /\ UNCHANGED <<overtaken, late, watched>>

\* records which waiting uploads a later click's rendered response overtook
TrackOvertaken(i) ==
    /\ overtaken' =
          IF CallStarted THEN Append(overtaken, FALSE)
          ELSE IF ~CallEnded THEN overtaken
          ELSE IF step'.handler = "uploadFile" /\ step'.at = "rendered"
               THEN Remove([k \in 1..Len(overtaken) |->
                               IF k < i /\ inflight[k].handler = "uploadFile"
                               THEN TRUE ELSE overtaken[k]], i)
               ELSE Remove(overtaken, i)
    /\ late' = (i > 0 /\ overtaken[i])
    /\ UNCHANGED <<requested, shownFrom, watched>>

\* follows one invocation, picked at its click, until it ends
TrackWatched(i) ==
    LET at == IF watched = -1 THEN 0 ELSE watched
    IN  /\ IF CallStarted
           THEN IF at = 0 THEN watched' \in {0, Len(inflight')} ELSE watched' = at
           ELSE IF ~CallEnded THEN watched' = at
           ELSE watched' = (IF i = at THEN -1
                            ELSE IF i < at THEN at - 1 ELSE at)
        /\ UNCHANGED <<requested, shownFrom, overtaken, late>>

(***************************************************************************)
(* Initial state: line 6, and the page as its markup leaves it             *)
(***************************************************************************)
Init ==
    /\ files = <<>>
    /\ currentData = Null
    /\ fileInfo = [filename |-> "", dimensions |-> "", dupeCount |-> ""]
    /\ select = [options |-> <<>>, selectedIndex |-> 0]
    /\ table = <<>>
    /\ resultsDisplay = "none"
    /\ inflight = <<>>
    /\ step = Step("none", "load")
    /\ effects = <<>>
    /\ okSeen = FALSE
    /\ InitHist

(***************************************************************************)
(* The user                                                                *)
(***************************************************************************)
\* the user picks a file in fileInput, or empties the selection (lines 9-10)
selectFile ==
    /\ \E f \in Files : files' = <<f>>
    /\ files' # files
    /\ step' = Step("user", "selectFile")
    /\ effects' = <<>>
    /\ UNCHANGED <<currentData, dom, inflight, okSeen>>

clearFile ==
    /\ files # <<>>
    /\ files' = <<>>
    /\ step' = Step("user", "clearFile")
    /\ effects' = <<>>
    /\ UNCHANGED <<currentData, dom, inflight, okSeen>>

\* the user picks another option of dupeColumn (line 104 reads it)
chooseColumn ==
    /\ \E k \in 1..Len(select.options) :
          /\ k # select.selectedIndex
          /\ select' = [select EXCEPT !.selectedIndex = k]
    /\ step' = Step("user", "chooseColumn")
    /\ effects' = <<>>
    /\ UNCHANGED <<files, currentData, fileInfo, table, resultsDisplay, inflight, okSeen>>

(***************************************************************************)
(* uploadFile (lines 8-45)                                                 *)
(***************************************************************************)
\* the return after the alert left out: the handler goes on to fetch
uploadFileNoReturn ==
    /\ Len(inflight) < MaxInFlight
    /\ effects' = (IF Len(files) = 0 THEN <<Alert("Please select a file first")>>
                                      ELSE <<>>)
                  \o <<Fetch("/data/upload",
                             [file |-> IF Len(files) = 0 THEN "undefined" ELSE files[1]])>>
    /\ inflight' = Append(inflight, Suspended("uploadFile", "fetch"))
    /\ step' = Step("uploadFile", IF Len(files) = 0 THEN "noFile" ELSE "request")
    /\ UNCHANGED <<files, currentData, dom, okSeen>>

\* the click, up to the first await (lines 9-24)
\* the click reveals the results section before any response
uploadFileRevealing ==
    IF Len(files) = 0
    THEN /\ effects' = <<Alert("Please select a file first")>>
         /\ step' = Step("uploadFile", "noFile")
         /\ UNCHANGED <<files, currentData, dom, inflight, okSeen>>
    ELSE /\ Len(inflight) < MaxInFlight
         /\ effects' = <<Fetch("/data/upload", [file |-> files[1]])>>
         /\ inflight' = Append(inflight, Suspended("uploadFile", "fetch"))
         /\ step' = Step("uploadFile", "request")
         /\ resultsDisplay' = "block"
         /\ UNCHANGED <<files, currentData, fileInfo, select, table, okSeen>>

uploadFile ==
    IF Len(files) = 0
    THEN /\ effects' = <<Alert("Please select a file first")>>
         /\ step' = Step("uploadFile", "noFile")
         /\ UNCHANGED <<files, currentData, dom, inflight, okSeen>>
    ELSE /\ Len(inflight) < MaxInFlight
         /\ effects' = <<Fetch("/data/upload", [file |-> files[1]])>>
         /\ inflight' = Append(inflight, Suspended("uploadFile", "fetch"))
         /\ step' = Step("uploadFile", "request")
         /\ UNCHANGED <<files, currentData, dom, okSeen>>

\* fetch resolves; the handler calls response.json() and waits again (lines 21-26)
uploadFileFetched(i) ==
    /\ inflight[i] = Suspended("uploadFile", "fetch")
    /\ inflight' = [inflight EXCEPT ![i].pc = "json"]
    /\ step' = Step("uploadFile", "fetched")
    /\ effects' = <<>>
    /\ UNCHANGED <<files, currentData, dom, okSeen>>

\* the catch block issues the request again
uploadFileRejectedRetrying(i, msg) ==
    /\ inflight[i].handler = "uploadFile"
    /\ IF inflight[i].pc = "fetch" THEN msg = FetchFailedMessage
                                   ELSE msg = JsonSyntaxMessage
    /\ inflight' = [inflight EXCEPT ![i].pc = "fetch"]
    /\ step' = Step("uploadFile", "rejected")
    /\ effects' = Catch(UploadPrefix, msg) \o <<Fetch("/data/upload", [file |-> "data.csv"])>>
    /\ UNCHANGED <<files, currentData, dom, okSeen>>

\* the catch block also hides the results section
uploadFileRejectedHiding(i, msg) ==
    /\ inflight[i].handler = "uploadFile"
    /\ IF inflight[i].pc = "fetch" THEN msg = FetchFailedMessage
                                   ELSE msg = JsonSyntaxMessage
    /\ inflight' = Remove(inflight, i)
    /\ step' = Step("uploadFile", "rejected")
    /\ effects' = Catch(UploadPrefix, msg)
    /\ resultsDisplay' = "none"
    /\ UNCHANGED <<files, currentData, fileInfo, select, table, okSeen>>

\* fetch or response.json() rejects: the catch block (lines 41-44)
uploadFileRejected(i, msg) ==
    /\ inflight[i].handler = "uploadFile"
    /\ IF inflight[i].pc = "fetch" THEN msg = FetchFailedMessage
                                   ELSE msg = JsonSyntaxMessage
    /\ inflight' = Remove(inflight, i)
    /\ step' = Step("uploadFile", "rejected")
    /\ effects' = Catch(UploadPrefix, msg)
    /\ UNCHANGED <<files, currentData, dom, okSeen>>

\* response.json() resolves with data: the rest of the handler (lines 26-44)
uploadFileResponse(i, data) ==
    LET info == displayFileInfo(fileInfo, data)
        sel  == populateColumnSelect(select, Get(data, "columns"))
        tbl  == displayPreview(table, Get(data, "preview"))
    IN
    /\ inflight[i] = Suspended("uploadFile", "json")
    /\ inflight' = Remove(inflight, i)
    /\ okSeen' = (okSeen \/ "error" \notin DOMAIN data)
    /\ UNCHANGED files
    /\ IF ErrorIsTruthy(data)
       THEN /\ step' = StepWith("uploadFile", "errorField", data)
            /\ effects' = Catch(UploadPrefix, data.error)
            /\ UNCHANGED <<currentData, dom>>
       ELSE /\ currentData' = data
            /\ fileInfo' = info.el
            /\ IF info.threw
               THEN /\ step' = StepWith("uploadFile", "threw", data)
                    /\ effects' = Catch(UploadPrefix, info.message)
                    /\ UNCHANGED <<select, table, resultsDisplay>>
               ELSE /\ select' = sel.el
                    /\ IF sel.threw
                       THEN /\ step' = StepWith("uploadFile", "threw", data)
                            /\ effects' = Catch(UploadPrefix, sel.message)
                            /\ UNCHANGED <<table, resultsDisplay>>
                       ELSE /\ table' = tbl.el
                            /\ IF tbl.threw
                               THEN /\ step' = StepWith("uploadFile", "threw", data)
                                    /\ effects' = Catch(UploadPrefix, tbl.message)
                                    /\ UNCHANGED resultsDisplay
                               ELSE /\ step' = StepWith("uploadFile", "rendered", data)
                                    /\ effects' = <<>>
                                    /\ resultsDisplay' = "block"

(***************************************************************************)
(* findDuplicates (lines 101-131)                                          *)
(***************************************************************************)
\* the click, up to the first await (lines 102-116)
findDuplicates ==
    IF currentData = Null
    THEN /\ effects' = <<>>
         /\ step' = Step("findDuplicates", "noData")
         /\ UNCHANGED <<files, currentData, dom, inflight, okSeen>>
    ELSE /\ Len(inflight) < MaxInFlight
         /\ effects' = <<Fetch("/data/find_duplicates",
                               RequestBody(Get(currentData, "preview"),
                                           SelectValue(select)))>>
         /\ inflight' = Append(inflight, Suspended("findDuplicates", "fetch"))
         /\ step' = Step("findDuplicates", "request")
         /\ UNCHANGED <<files, currentData, dom, okSeen>>

\* fetch resolves; the handler calls response.json() and waits again (lines 107-118)
findDuplicatesFetched(i) ==
    /\ inflight[i] = Suspended("findDuplicates", "fetch")
    /\ inflight' = [inflight EXCEPT ![i].pc = "json"]
    /\ step' = Step("findDuplicates", "fetched")
    /\ effects' = <<>>
    /\ UNCHANGED <<files, currentData, dom, okSeen>>

\* fetch or response.json() rejects: the catch block (lines 127-130)
findDuplicatesRejected(i, msg) ==
    /\ inflight[i].handler = "findDuplicates"
    /\ IF inflight[i].pc = "fetch" THEN msg = FetchFailedMessage
                                   ELSE msg = JsonSyntaxMessage
    /\ inflight' = Remove(inflight, i)
    /\ step' = Step("findDuplicates", "rejected")
    /\ effects' = Catch(DupesPrefix, msg)
    /\ UNCHANGED <<files, currentData, dom, okSeen>>

\* `Found ${data.count} duplicate entries` (line 124)
FoundMessage(data) ==
    "Found " \o (IF "count" \in DOMAIN data THEN ToString(data.count) ELSE "undefined")
             \o " duplicate entries"

\* the handler also keeps the body it read in currentData
findDuplicatesResponseStoring(i, data) ==
    LET tbl == displayPreview(table, Get(data, "duplicates"))
    IN
    /\ inflight[i] = Suspended("findDuplicates", "json")
    /\ inflight' = Remove(inflight, i)
    /\ UNCHANGED <<files, fileInfo, select, resultsDisplay, okSeen>>
    /\ IF ErrorIsTruthy(data)
       THEN /\ step' = StepWith("findDuplicates", "errorField", data)
            /\ effects' = Catch(DupesPrefix, data.error)
            /\ UNCHANGED <<table, currentData>>
       ELSE /\ currentData' = data
            /\ table' = tbl.el
            /\ IF tbl.threw
               THEN /\ step' = StepWith("findDuplicates", "threw", data)
                    /\ effects' = <<Alert(FoundMessage(data))>>
                                  \o Catch(DupesPrefix, tbl.message)
               ELSE /\ step' = StepWith("findDuplicates", "rendered", data)
                    /\ effects' = <<Alert(FoundMessage(data))>>

\* response.json() resolves with data: the rest of the handler (lines 118-130)
findDuplicatesResponse(i, data) ==
    LET tbl == displayPreview(table, Get(data, "duplicates"))
    IN
    /\ inflight[i] = Suspended("findDuplicates", "json")
    /\ inflight' = Remove(inflight, i)
    /\ UNCHANGED <<files, currentData, fileInfo, select, resultsDisplay, okSeen>>
    /\ IF ErrorIsTruthy(data)
       THEN /\ step' = StepWith("findDuplicates", "errorField", data)
            /\ effects' = Catch(DupesPrefix, data.error)
            /\ UNCHANGED table
       ELSE /\ table' = tbl.el
            /\ IF tbl.threw
               THEN /\ step' = StepWith("findDuplicates", "threw", data)
                    /\ effects' = <<Alert(FoundMessage(data))>>
                                  \o Catch(DupesPrefix, tbl.message)
               ELSE /\ step' = StepWith("findDuplicates", "rendered", data)
                    /\ effects' = <<Alert(FoundMessage(data))>>

(***************************************************************************)
(* The page                                                                *)
(***************************************************************************)
\* the page with a server that answers from the given sets of bodies
\* the steps of the invocation suspended at position i
Resume(i, uploadBodies, dupesBodies) ==
    \/ uploadFileFetched(i)
    \/ \E msg \in RejectMessages : uploadFileRejected(i, msg)
    \/ \E data \in uploadBodies : uploadFileResponse(i, data)
    \/ findDuplicatesFetched(i)
    \/ \E msg \in RejectMessages : findDuplicatesRejected(i, msg)
    \/ \E data \in dupesBodies : findDuplicatesResponse(i, data)

Page(uploadBodies, dupesBodies) ==
    \/ selectFile /\ Untracked(0)
    \/ clearFile /\ Untracked(0)
    \/ chooseColumn /\ Untracked(0)
    \/ uploadFile /\ Untracked(0)
    \/ \E i \in 1..Len(inflight) : uploadFileFetched(i) /\ Untracked(i)
    \/ \E i \in 1..Len(inflight) : \E msg \in RejectMessages :
          uploadFileRejected(i, msg) /\ Untracked(i)
    \/ \E i \in 1..Len(inflight) : \E data \in uploadBodies :
          uploadFileResponse(i, data) /\ Untracked(i)
    \/ findDuplicates /\ Untracked(0)
    \/ \E i \in 1..Len(inflight) : findDuplicatesFetched(i) /\ Untracked(i)
    \/ \E i \in 1..Len(inflight) : \E msg \in RejectMessages :
          findDuplicatesRejected(i, msg) /\ Untracked(i)
    \/ \E i \in 1..Len(inflight) : \E data \in dupesBodies :
          findDuplicatesResponse(i, data) /\ Untracked(i)

\* any body of the sets above
Next == Page(UploadBodies, DupesBodies)

\* only bodies of the two shapes the endpoints document: an error message, or
\* the full result
NextDocumented == Page(UploadBodies \ {EmptyErrorBody}, DupesBodies \ {EmptyErrorBody})

Spec == Init /\ [][Next]_vars

SpecDocumented == Init /\ [][NextDocumented]_vars

\* only bodies with a non-empty preview or duplicates sequence, or an error
\* message; what the requests carried and what the table shows is recorded
NonEmptyUploadBodies == {DataA, DataB, ErrorBody}
NonEmptyDupesBodies == {DupesA, DupesB, ErrorBody}
NextNonEmpty ==
    \/ selectFile /\ TrackRequests(0)
    \/ clearFile /\ TrackRequests(0)
    \/ chooseColumn /\ TrackRequests(0)
    \/ uploadFile /\ TrackRequests(0)
    \/ \E i \in 1..Len(inflight) : uploadFileFetched(i) /\ TrackRequests(i)
    \/ \E i \in 1..Len(inflight) : \E msg \in RejectMessages :
          uploadFileRejected(i, msg) /\ TrackRequests(i)
    \/ \E i \in 1..Len(inflight) : \E data \in NonEmptyUploadBodies :
          uploadFileResponse(i, data) /\ TrackRequests(i)
    \/ findDuplicates /\ TrackRequests(0)
    \/ \E i \in 1..Len(inflight) : findDuplicatesFetched(i) /\ TrackRequests(i)
    \/ \E i \in 1..Len(inflight) : \E msg \in RejectMessages :
          findDuplicatesRejected(i, msg) /\ TrackRequests(i)
    \/ \E i \in 1..Len(inflight) : \E data \in NonEmptyDupesBodies :
          findDuplicatesResponse(i, data) /\ TrackRequests(i)

SpecNonEmpty == Init /\ [][NextNonEmpty]_vars

\* any body; overtaken uploads are recorded
NextOverlap ==
    \/ selectFile /\ TrackOvertaken(0)
    \/ clearFile /\ TrackOvertaken(0)
    \/ chooseColumn /\ TrackOvertaken(0)
    \/ uploadFile /\ TrackOvertaken(0)
    \/ \E i \in 1..Len(inflight) : uploadFileFetched(i) /\ TrackOvertaken(i)
    \/ \E i \in 1..Len(inflight) : \E msg \in RejectMessages :
          uploadFileRejected(i, msg) /\ TrackOvertaken(i)
    \/ \E i \in 1..Len(inflight) : \E data \in UploadBodies :
          uploadFileResponse(i, data) /\ TrackOvertaken(i)
    \/ findDuplicates /\ TrackOvertaken(0)
    \/ \E i \in 1..Len(inflight) : findDuplicatesFetched(i) /\ TrackOvertaken(i)
    \/ \E i \in 1..Len(inflight) : \E msg \in RejectMessages :
          findDuplicatesRejected(i, msg) /\ TrackOvertaken(i)
    \/ \E i \in 1..Len(inflight) : \E data \in DupesBodies :
          findDuplicatesResponse(i, data) /\ TrackOvertaken(i)

SpecOverlap == Init /\ [][NextOverlap]_vars

\* one body for each way a handler ends: rendered, thrown while rendering,
\* an error message.  One invocation is followed, and every request
\* completes: the invocation at each position is resumed again while one
\* waits there
FairUploadBodies == {DataA, DataEmpty, ErrorBody}
FairDupesBodies == {DupesA, DupesNone, ErrorBody}
NextFair ==
    \/ selectFile /\ TrackWatched(0)
    \/ clearFile /\ TrackWatched(0)
    \/ chooseColumn /\ TrackWatched(0)
    \/ uploadFile /\ TrackWatched(0)
    \/ \E i \in 1..Len(inflight) : uploadFileFetched(i) /\ TrackWatched(i)
    \/ \E i \in 1..Len(inflight) : \E msg \in RejectMessages :
          uploadFileRejected(i, msg) /\ TrackWatched(i)
    \/ \E i \in 1..Len(inflight) : \E data \in FairUploadBodies :
          uploadFileResponse(i, data) /\ TrackWatched(i)
    \/ findDuplicates /\ TrackWatched(0)
    \/ \E i \in 1..Len(inflight) : findDuplicatesFetched(i) /\ TrackWatched(i)
    \/ \E i \in 1..Len(inflight) : \E msg \in RejectMessages :
          findDuplicatesRejected(i, msg) /\ TrackWatched(i)
    \/ \E i \in 1..Len(inflight) : \E data \in FairDupesBodies :
          findDuplicatesResponse(i, data) /\ TrackWatched(i)

Completes(i) ==
    /\ i \in 1..Len(inflight)
    /\ Resume(i, FairUploadBodies, FairDupesBodies)
    /\ TrackWatched(i)

SpecFair ==
    /\ Init
    /\ [][NextFair]_vars
    /\ \A i \in 1..MaxInFlight : WF_vars(Completes(i))

(***************************************************************************)
(* displayPreview alone (lines 66-99): any row sequence within the bounds, *)
(* rendered into a table that is empty or holds an earlier rendering       *)
(***************************************************************************)
KeyNames == {"a", "b"}
RenderScalars == {JNum1, JNull}

KeyOrders == {ks \in UNION {[1..n -> KeyNames] : n \in 0..Cardinality(KeyNames)} :
                 \A j, k \in 1..Len(ks) : ks[j] = ks[k] => j = k}
RowRecords == UNION {{[j \in 1..Len(ks) |-> [key |-> ks[j], value |-> vs[j]]] :
                        vs \in [1..Len(ks) -> RenderScalars]} : ks \in KeyOrders}
RowSequences == UNION {[1..n -> RowRecords] : n \in 0..MaxRows}

EarlierTables == {<<>>,
                  <<[tag |-> "thead", rows |-> <<<<"b">>>>],
                    [tag |-> "tbody", rows |-> <<<<"x">>>>]>>}

InitRender ==
    /\ files = <<>>
    /\ currentData = Null
    /\ fileInfo = [filename |-> "", dimensions |-> "", dupeCount |-> ""]
    /\ select = [options |-> <<>>, selectedIndex |-> 0]
    /\ table \in EarlierTables
    /\ resultsDisplay = "none"
    /\ inflight = <<>>
    /\ \E rows \in RowSequences : step = StepWith("displayPreview", "call", rows)
    /\ effects = <<>>
    /\ okSeen = FALSE
    /\ InitHist

displayPreviewCall ==
    LET tbl == displayPreview(table, step.data)
    IN  /\ step.handler = "displayPreview"
        /\ step.at = "call"
        /\ table' = tbl.el
        /\ step' = [step EXCEPT !.at = IF tbl.threw THEN "threw" ELSE "returned"]
        /\ UNCHANGED <<files, currentData, fileInfo, select, resultsDisplay,
                       inflight, effects, okSeen>>
        /\ UNCHANGED hist

SpecRender == InitRender /\ [][displayPreviewCall]_vars

(***************************************************************************)
(* Properties                                                              *)
(***************************************************************************)
\* the last step was a click on the button, in either branch of the handler
UploadClicked == step'.handler = "uploadFile" /\ step'.at \in {"noFile", "request"}
FindDupesClicked == step'.handler = "findDuplicates" /\ step'.at \in {"noData", "request"}

\* the last step read the body of a response
UploadBodyRead == step'.handler = "uploadFile" /\ Len(step'.data) = 1
DupesBodyRead == step'.handler = "findDuplicates" /\ Len(step'.data) = 1

HasTruthyError(d) == "error" \in DOMAIN d /\ d.error # ""
HasAlertPrefixed(efx, prefix) ==
    \E k \in 1..Len(efx) : efx[k].type = "alert" /\ StartsWith(efx[k].text, prefix)

\* what a cell shows for a value: its string, and nothing for null
CellText(v) == IF v = JNull THEN "" ELSE v.str
RowTexts(rows) == [r \in 1..Len(rows) |-> [j \in 1..Len(rows[r]) |-> CellText(rows[r][j].value)]]
BodyRows(tbl) ==
    IF \E k \in 1..Len(tbl) : tbl[k].tag = "tbody"
    THEN tbl[CHOOSE k \in 1..Len(tbl) : tbl[k].tag = "tbody"].rows
    ELSE <<>>

\* C1: a click on upload while no file is selected shows exactly the
\* notification 'Please select a file first', issues no network request and
\* leaves currentData, the column selector, the preview table and the
\* visibility of the results section unchanged.
C1_NoFileClick ==
    [][(UploadClicked /\ Len(files) = 0) =>
          /\ Alerts(effects') = <<Alert("Please select a file first")>>
          /\ Fetches(effects') = <<>>
          /\ inflight' = inflight
          /\ UNCHANGED <<currentData, select, table, resultsDisplay>>]_vars

C1_Witness ==
    /\ step = Step("uploadFile", "noFile")
    /\ Len(files) = 0
    /\ currentData # Null
    /\ resultsDisplay = "block"

\* the last step ended an upload invocation on a truthy error field or a rejection
UploadFailedStep ==
    /\ step'.handler = "uploadFile"
    /\ \/ step'.at = "rejected"
       \/ Len(step'.data) = 1 /\ HasTruthyError(step'.data[1])

\* C2: an upload invocation whose body has a truthy error field, or whose
\* network call rejects, shows one notification prefixed 'Error processing
\* file: ', and no step of it (the click, the resumption after fetch, the
\* failure) changes currentData, the selector, the preview table or the
\* visibility of the results section.
C2_FailedUploadKeepsState ==
    [][/\ UploadFailedStep =>
             /\ Len(Alerts(effects')) = 1
             /\ StartsWith(Alerts(effects')[1].text, "Error processing file: ")
       /\ (UploadFailedStep \/ (step'.handler = "uploadFile" /\ Len(step'.data) = 0)) =>
             UNCHANGED <<currentData, select, table, resultsDisplay>>]_vars

C2_Witness ==
    /\ step = StepWith("uploadFile", "errorField", ErrorBody)
    /\ currentData = DataA
    /\ resultsDisplay = "block"

\* C3: currentData is null in every state reached before an upload body
\* without an error field has been read, and in every such state a click on
\* find-duplicates issues no request, shows no notification and changes no
\* state.
C3_NullUntilUploadWithoutErrorField ==
    [][/\ ~okSeen' => currentData' = Null
       /\ (~okSeen /\ FindDupesClicked) =>
             /\ effects' = <<>>
             /\ UNCHANGED <<files, currentData, dom, inflight>>]_vars

\* C4: with currentData non-null, a click on find-duplicates issues exactly
\* one POST to /data/find_duplicates whose data field is currentData.preview
\* as stored at the click and whose column field is the selector's value at
\* the click.
C4_RequestCarriesPreviewAndColumn ==
    [][(FindDupesClicked /\ currentData # Null) =>
          LET f == Fetches(effects')
          IN  /\ Len(f) = 1
              /\ f[1].url = "/data/find_duplicates"
              /\ f[1].method = "POST"
              /\ Get(f[1].body, "data") = Get(currentData, "preview")
              /\ f[1].body.column =
                    (IF select.selectedIndex = 0 THEN ""
                     ELSE select.options[select.selectedIndex].value)]_vars

C4_Witness ==
    /\ step = Step("findDuplicates", "request")
    /\ currentData = DataA
    /\ BodyRows(table) = RowTexts(DupesB.duplicates)
    /\ select.selectedIndex = 2
    /\ Fetches(effects)[1].body = [data |-> DataA.preview, column |-> "b"]

\* C5: every upload invocation that reads a response body ends in exactly one
\* of two outcomes: Ready (currentData is the body, the results section is
\* shown, no error notification) or UploadFailed (a notification prefixed
\* 'Error processing file: ', with currentData, file info, selector, table
\* and the visibility of the results section as before).
C5_UploadEndsReadyOrFailed ==
    [][UploadBodyRead =>
          LET ready  == /\ currentData' = step'.data[1]
                        /\ resultsDisplay' = "block"
                        /\ ~HasAlertPrefixed(effects', "Error processing file: ")
              failed == /\ HasAlertPrefixed(effects', "Error processing file: ")
                        /\ UNCHANGED <<currentData, fileInfo, select, table, resultsDisplay>>
          IN  (ready /\ ~failed) \/ (failed /\ ~ready)]_vars

\* C6: a find-duplicates invocation that ends by showing the notification
\* prefixed 'Error finding duplicates: ' leaves the preview table as it was.
C6_DupesErrorKeepsTable ==
    [][(step'.handler = "findDuplicates"
        /\ HasAlertPrefixed(effects', "Error finding duplicates: "))
       => table' = table]_vars

\* C7: for a find-duplicates body without an error field, with count n and
\* duplicates D, the handler shows exactly the notification 'Found n duplicate
\* entries', the body rows of the preview table become the entries of D in
\* order, and no error notification is shown.
C7_FoundThenRendered ==
    [][(DupesBodyRead /\ "error" \notin DOMAIN step'.data[1]) =>
          LET d == step'.data[1]
          IN  /\ Alerts(effects') =
                    <<Alert("Found " \o ToString(d.count) \o " duplicate entries")>>
              /\ BodyRows(table') = RowTexts(d.duplicates)]_vars

\* C8: once an upload body without an error field and with columns c1..cN has
\* been processed, the column selector holds exactly N options, in the same
\* order, each with value and label ci; earlier options are gone.
C8_SelectorMatchesColumns ==
    [][(UploadBodyRead /\ "error" \notin DOMAIN step'.data[1]) =>
          LET cols == step'.data[1].columns
          IN  select'.options =
                 [k \in 1..Len(cols) |-> [value |-> cols[k], text |-> cols[k]]]]_vars

C8_Witness ==
    /\ step = StepWith("uploadFile", "rendered", DataB)
    /\ select.options = <<[value |-> "b", text |-> "b"]>>
    /\ \E k \in 1..Len(inflight) : inflight[k].handler = "findDuplicates"

\* C9: rendering R >= 1 records that share the same C keys leaves in the
\* table exactly one header row of C header cells (the keys of the first
\* record, in its key order) and exactly R body rows, row i holding one cell
\* per value of record i in that record's order, as text; nothing of the
\* earlier content remains.
SameKeys(rows) ==
    \A r \in 1..Len(rows) :
        {rows[r][j].key : j \in 1..Len(rows[r])} = {rows[1][j].key : j \in 1..Len(rows[1])}

C9_RenderedTable ==
    (/\ step.handler = "displayPreview"
     /\ step.at # "call"
     /\ Len(step.data[1]) >= 1
     /\ SameKeys(step.data[1]))
    => LET rows == step.data[1]
       IN  /\ Len(table) = 2
           /\ table[1].tag = "thead"
           /\ Len(table[1].rows) = 1
           /\ table[1].rows[1] = [j \in 1..Len(rows[1]) |-> rows[1][j].key]
           /\ table[2].tag = "tbody"
           /\ Len(table[2].rows) = Len(rows)
           /\ \A r \in 1..Len(rows) :
                 table[2].rows[r] = [j \in 1..Len(rows[r]) |-> CellText(rows[r][j].value)]

C9_Witness ==
    /\ step.handler = "displayPreview"
    /\ step.at = "returned"
    /\ Len(step.data[1]) = 2
    /\ SameKeys(step.data[1])
    /\ Len(step.data[1][1]) = 2
    /\ step.data[1][1][1].key # step.data[1][2][1].key
    /\ step.data[1][2][1].value = JNull

\* C10: currentData is written only by the upload handler: every step of a
\* find-duplicates invocation and the no-file upload click leave it unchanged,
\* whatever else is in flight.
C10_OnlyUploadWritesCurrentData ==
    [][(step'.handler = "findDuplicates" \/ step' = Step("uploadFile", "noFile"))
       => currentData' = currentData]_vars

C10_Witness ==
    /\ step = StepWith("findDuplicates", "rendered", DupesB)
    /\ currentData = DataA
    /\ \E k \in 1..Len(inflight) : inflight[k] = Suspended("uploadFile", "json")

\* C11: there are no retries.  A step issues at most one request; a request
\* is issued only by the click that starts an invocation, to the endpoint of
\* the clicked button; every other step of a handler, a failure included,
\* issues none and starts no invocation, and a failure ends its invocation.
C11_OneRequestPerClick ==
    [][/\ Len(Fetches(effects')) <= 1
       /\ Fetches(effects') # <<>> =>
             /\ step'.at = "request"
             /\ Len(inflight') = Len(inflight) + 1
             /\ \/ step'.handler = "uploadFile"
                   /\ Fetches(effects')[1].url = "/data/upload"
                \/ step'.handler = "findDuplicates"
                   /\ Fetches(effects')[1].url = "/data/find_duplicates"
       /\ Len(inflight') > Len(inflight) => Len(Fetches(effects')) = 1
       /\ (HasAlertPrefixed(effects', "Error processing file: ")
           \/ HasAlertPrefixed(effects', "Error finding duplicates: ")) =>
             /\ Fetches(effects') = <<>>
             /\ Len(inflight') = Len(inflight) - 1]_vars

C11_Witness ==
    /\ step = Step("uploadFile", "rejected")
    /\ HasAlertPrefixed(effects, "Error processing file: ")
    /\ Fetches(effects) = <<>>
    /\ inflight = <<>>

\* C16: whenever the results section is visible currentData is non-null, and
\* no step hides the results section once it is visible.
C16_VisibleResultsStay ==
    [][/\ resultsDisplay' = "block" => currentData' # Null
       /\ resultsDisplay = "block" => resultsDisplay' = "block"]_vars

C16_Witness ==
    /\ resultsDisplay = "block"
    /\ currentData # Null
    /\ step = Step("uploadFile", "rejected")

\* C13: in every state where currentData is non-null, the options of the
\* column selector are currentData.columns in order, and the displayed
\* filename and duplicate count are currentData.filename and
\* currentData.stats.duplicates.
C13_PageShowsCurrentData ==
    currentData # Null =>
       /\ {"columns", "filename", "stats"} \subseteq DOMAIN currentData
       /\ select.options = [k \in 1..Len(currentData.columns) |->
                               [value |-> currentData.columns[k],
                                text |-> currentData.columns[k]]]
       /\ fileInfo.filename = currentData.filename
       /\ fileInfo.dupeCount = ToString(currentData.stats.duplicates)

\* C14: with non-empty previews and duplicates sequences, whenever the
\* results section is visible the rows of the table derive from the dataset
\* in currentData: they were rendered from currentData.preview, or from the
\* duplicates returned for a request whose data field was currentData.preview.
C14_TableDerivesFromCurrentData ==
    resultsDisplay = "block" => shownFrom = Get(currentData, "preview")

\* C15: overlapping uploads.  Whenever an upload reads a body without an
\* error field and with a non-empty preview, whichever click it belongs to
\* and whatever else waits, it ends with currentData, the file info, the
\* selector, the table and the results section all those of that body alone;
\* so after two overlapping uploads the page is that of the response that
\* arrived last.
C15_LastResponseWins ==
    [][(/\ UploadBodyRead
        /\ "error" \notin DOMAIN step'.data[1]
        /\ Len(step'.data[1].preview) >= 1) =>
          LET d == step'.data[1]
              rows == d.preview
          IN  /\ step'.at = "rendered"
              /\ currentData' = d
              /\ fileInfo' = [filename |-> d.filename,
                              dimensions |-> ToString(d.stats.rows) \o " rows × "
                                             \o ToString(d.stats.columns) \o " columns",
                              dupeCount |-> ToString(d.stats.duplicates)]
              /\ select'.options =
                    [k \in 1..Len(d.columns) |->
                        [value |-> d.columns[k], text |-> d.columns[k]]]
              /\ Len(table') = 2
              /\ table'[1] = [tag |-> "thead", rows |->
                                 <<[j \in 1..Len(rows[1]) |-> rows[1][j].key]>>]
              /\ table'[2] = [tag |-> "tbody", rows |-> RowTexts(rows)]
              /\ resultsDisplay' = "block"]_vars

\* the response that arrived last belongs to the earlier click: a later
\* click's response was rendered while it waited
C15_Witness ==
    /\ late
    /\ step.handler = "uploadFile"
    /\ step.at = "rendered"
    /\ step.data[1] = DataA
    /\ currentData = DataA
    /\ fileInfo.filename = "a.csv"
    /\ inflight = <<>>

\* C12: an invocation that has issued its request changes nothing on the
\* page, leaves currentData alone and shows no notification while it waits;
\* it ends only by rendering its result or by its error notification; and,
\* every request completing, every invocation that waits eventually ends.
C12_WaitsThenTerminates ==
    /\ [][/\ step'.at \in {"request", "fetched"} =>
               /\ UNCHANGED <<currentData, dom>>
               /\ Alerts(effects') = <<>>
          /\ CallEnded =>
               \/ step'.at = "rendered"
               \/ /\ step'.handler = "uploadFile"
                  /\ HasAlertPrefixed(effects', "Error processing file: ")
               \/ /\ step'.handler = "findDuplicates"
                  /\ HasAlertPrefixed(effects', "Error finding duplicates: ")
          /\ Len(inflight') < Len(inflight) => CallEnded]_vars
    /\ (watched > 0) ~> (watched = -1)

\* the followed invocation has just ended with its error notification
C12_Witness ==
    /\ watched = -1
    /\ step.handler = "findDuplicates"
    /\ step.at = "threw"
    /\ HasAlertPrefixed(effects, "Error finding duplicates: ")

====
